---- MODULE Spec2Model ----
(***************************************************************************)
(* ToiletLocatorAgent (src/Agent.py): a reference table of bus stops with   *)
(* their nearest washroom, and process_query, which resolves a free-text    *)
(* query to one row of the table.                                           *)
(*                                                                          *)
(* Representation.                                                          *)
(*  - A Python str that is matched (query, stop name, entity text) is a     *)
(*    sequence of word tokens; <<>> stands for None and for '' alike, the   *)
(*    code tests such values only for truthiness.  Other strings (ids,      *)
(*    addresses) are TLA+ strings.                                          *)
(*  - Coordinates are the table's floats scaled by 10^4.                    *)
(*  - spaCy's nlp(), fuzz.partial_ratio and process.extractOne's scorer are *)
(*    library code.  Their answers are inputs of the call, drawn from       *)
(*    bounded sets that respect what the libraries guarantee (an entity is  *)
(*    a span of the query; a string scores 100 against one that contains    *)
(*    it; an empty string scores 0; strings with no word in common score    *)
(*    low).  The libraries are deterministic: a behaviour fixes the query   *)
(*    and the libraries' answers for it, and process_query is called on it  *)
(*    once or more.                                                         *)
(***************************************************************************)
EXTENDS Integers, Sequences, FiniteSets, TLC

VARIABLES df, stop_names, query, ents, pscore, wscore, result, trace, prev

vars == <<df, stop_names, query, ents, pscore, wscore, result, trace, prev>>

(* ------------------------------ bounds --------------------------------- *)

\* Rows of a table loaded from a CSV file.
MaxRows == 2
\* LOC/GPE entities spaCy reports for one query.
MaxEnts == 2
\* Tokens of one entity.
MaxEntLen == 2

(* ------------------------------ values --------------------------------- *)

None == <<>>

\* No dict (find_nearest_toilet's None).
NoInfo == [none |-> TRUE]

\* The library was not asked for scores in this call.
NotAsked == <<>>

\* The sample table of __init__ (data_path is None).
DefaultRows ==
  << [stop_id |-> "BS001", stop_lat |-> 286129, stop_lon |-> 772295,
      stop_name |-> <<"Arjun", "Nagar">>, nearest_washroom_id |-> "PTU-13_001",
      washroom_latitude |-> 286139, washroom_longitude |-> 772305,
      distance |-> 150, washroom_address |-> "Near Arjun Nagar Market"],
     [stop_id |-> "BS002", stop_lat |-> 286229, stop_lon |-> 772395,
      stop_name |-> <<"Karol", "Bagh">>, nearest_washroom_id |-> "PTU-14_002",
      washroom_latitude |-> 286239, washroom_longitude |-> 772405,
      distance |-> 200, washroom_address |-> "Karol Bagh Metro Station"],
     [stop_id |-> "BS003", stop_lat |-> 286329, stop_lon |-> 772495,
      stop_name |-> <<"Connaught", "Place">>, nearest_washroom_id |-> "PTU-15_003",
      washroom_latitude |-> 286339, washroom_longitude |-> 772505,
      distance |-> 100, washroom_address |-> "Connaught Place Block A"],
     [stop_id |-> "BS004", stop_lat |-> 286429, stop_lon |-> 772595,
      stop_name |-> <<"Lajpat", "Nagar">>, nearest_washroom_id |-> "PTU-16_004",
      washroom_latitude |-> 286439, washroom_longitude |-> 772605,
      distance |-> 180, washroom_address |-> "Lajpat Nagar Central Market"],
     [stop_id |-> "BS005", stop_lat |-> 286529, stop_lon |-> 772695,
      stop_name |-> <<"Hauz", "Khas">>, nearest_washroom_id |-> "PTU-17_005",
      washroom_latitude |-> 286539, washroom_longitude |-> 772705,
      distance |-> 120, washroom_address |-> "Hauz Khas Village Entrance"] >>

\* Rows a CSV file given as data_path may hold: two of the sample rows, a
\* second row for the stop name of one of them, and a stop whose name is part
\* of another stop's name.
CsvRows ==
  { DefaultRows[1], DefaultRows[2],
    [stop_id |-> "BS102", stop_lat |-> 286730, stop_lon |-> 772896,
     stop_name |-> <<"Karol", "Bagh">>, nearest_washroom_id |-> "PTU-24_102",
     washroom_latitude |-> 286741, washroom_longitude |-> 772907,
     distance |-> 90, washroom_address |-> "Karol Bagh Gate 2"],
    [stop_id |-> "BS103", stop_lat |-> 286831, stop_lon |-> 772997,
     stop_name |-> <<"Nagar">>, nearest_washroom_id |-> "PTU-25_103",
     washroom_latitude |-> 286842, washroom_longitude |-> 773008,
     distance |-> 60, washroom_address |-> "Nagar Chowk"] }

SeqsUpTo(S, n) == UNION { [1..k -> S] : k \in 0..n }

\* The tables an agent can be constructed with.
Tables == {DefaultRows} \cup SeqsUpTo(CsvRows, MaxRows)

\* pd.DataFrame column -> list.
Column(table, col) == [i \in 1..Len(table) |-> table[i][col]]

\* The queries put to the agent: every stop name of every table, and
\* free-text queries with and without a place in them.
Queries ==
  { DefaultRows[i].stop_name : i \in 1..Len(DefaultRows) }
  \cup { r.stop_name : r \in CsvRows }
  \cup { <<"I", "need", "a", "washroom", "near", "Connaught", "Place">>,
         <<"please", "help", "me">>,
         <<"the", "12">>,
         <<"toilet", "near", "karol", "bagh">>,
         <<"Delhi", "to", "Karol", "Bagh">>,
         <<"Karol", "Bagh", "Delhi">>,
         <<"Arjun", "Nagr">> }

(* ------------------------------ strings -------------------------------- *)

\* str.lower() of one token.
LowerTok(w) ==
  CASE w = "I" -> "i"
    [] w = "Arjun" -> "arjun"
    [] w = "Nagar" -> "nagar"
    [] w = "Nagr" -> "nagr"
    [] w = "Karol" -> "karol"
    [] w = "Bagh" -> "bagh"
    [] w = "Connaught" -> "connaught"
    [] w = "Place" -> "place"
    [] w = "Lajpat" -> "lajpat"
    [] w = "Hauz" -> "hauz"
    [] w = "Khas" -> "khas"
    [] w = "Delhi" -> "delhi"
    [] OTHER -> w

\* str.lower().
Lower(s) == [i \in 1..Len(s) |-> LowerTok(s[i])]

\* str.isalpha() of one lower-case token.
IsAlpha(w) == w # "12"

\* stopwords.words('english'), the part that meets the queries.
StopWords == {"i", "a", "the", "me", "to"}

\* [w for w in tokens if w.isalpha() and w not in stop_words], joined.
RECURSIVE FilterTokens(_)
FilterTokens(tokens) ==
  IF tokens = <<>> THEN <<>>
  ELSE LET w == Head(tokens)
           rest == FilterTokens(Tail(tokens))
       IN IF IsAlpha(w) /\ w \notin StopWords THEN <<w>> \o rest ELSE rest

\* a occurs in b as a run of whole words.
Contains(a, b) ==
  \E i \in 0..(Len(b) - Len(a)) : SubSeq(b, i + 1, i + Len(a)) = a

(* ------------------------- library answers ----------------------------- *)

\* Labels of the entities of doc.ents.
Labels == {"GPE", "LOC", "PERSON"}

\* A word an entity may hold: a capitalised word that is no stop word.
IsNameWord(w) == LowerTok(w) # w /\ LowerTok(w) \notin StopWords

\* Spans <<first, last>> of q an entity may cover: runs of name words.
Spans(q) ==
  { sp \in (1..Len(q)) \X (1..Len(q)) :
      /\ sp[1] <= sp[2]
      /\ sp[2] - sp[1] < MaxEntLen
      /\ \A i \in sp[1]..sp[2] : IsNameWord(q[i]) }

\* doc.ents of nlp(q): entities in document order, no two overlapping, each
\* with its text and label.
NerAnswers(q) ==
  { [k \in 1..Len(ss) |-> [text |-> SubSeq(q, ss[k][1][1], ss[k][1][2]),
                            label_ |-> ss[k][2]]] :
      ss \in { s \in SeqsUpTo(Spans(q) \X Labels, MaxEnts) :
                 \A k \in 1..(Len(s) - 1) : s[k][1][2] < s[k + 1][1][1] } }

\* Two lower-case words that are the same word, or spellings of one word.
Near(v, w) == v = w \/ {v, w} = {"nagr", "nagar"}

\* Two strings that have a word in common.
Related(a, b) == \E i \in 1..Len(a) : \E j \in 1..Len(b) : Near(a[i], b[j])

\* The functions that give each name of S a score of its range.
RECURSIVE ScoreFunctions(_, _)
ScoreFunctions(S, range) ==
  IF S = {} THEN { <<>> }
  ELSE LET n == CHOOSE n \in S : TRUE
       IN { (n :> v) @@ g : v \in range[n], g \in ScoreFunctions(S \ {n}, range) }

\* Scores fuzz.partial_ratio gives two strings that have a word in common and
\* do not hold one another: at the threshold of extract_location, just above
\* it, and well above it.
PScores == {70, 71, 90}

\* Scores process.extractOne's scorer gives two strings that have a word in
\* common and do not hold one another: just below the threshold of
\* find_nearest_toilet, at it, and well above it.
WScores == {59, 60, 90}

\* fuzz.partial_ratio(f, n): 0 for an empty string, 100 when one string holds
\* the other, a low score (30) for strings with no word in common, and
\* otherwise any score.
PartialRatioRange(f, n) ==
  IF f = <<>> \/ n = <<>> THEN {0}
  ELSE IF Contains(f, n) \/ Contains(n, f) THEN {100}
  ELSE IF Related(f, n) THEN PScores
  ELSE {30}

\* The answers of fuzz.partial_ratio(f, name.lower()) for the names, as a
\* function of the name.
PartialRatioAnswers(f, names) ==
  LET S == { names[i] : i \in 1..Len(names) }
      range == [n \in S |-> PartialRatioRange(f, Lower(n))]
  IN { pr \in ScoreFunctions(S, range) :
         \A n, m \in S : Lower(n) = Lower(m) => pr[n] = pr[m] }

\* The default scorer of process.extractOne (fuzz.WRatio) on strings both run
\* through utils.full_process (lower-cased): 100 for equal strings; the partial
\* ratio of 100 scaled by 0.9 when one holds the other; a low score (30) for
\* strings with no word in common; otherwise any score.
WRatioRange(a, n) ==
  IF a = n THEN {100}
  ELSE IF Contains(a, n) \/ Contains(n, a) THEN {90}
  ELSE IF Related(a, n) THEN WScores
  ELSE {30}

\* What process.extractOne meets for location over names: a score for each
\* choice; over no choices it has nothing to return, and the call site fails
\* with TypeError (None is not a pair) or, where the library's generator
\* raises StopIteration, with RuntimeError.
ExtractOneAnswers(location, names) ==
  LET S == { names[i] : i \in 1..Len(names) }
  IN IF S = {} THEN { [error |-> "TypeError"], [error |-> "RuntimeError"] }
     ELSE LET range == [n \in S |-> WRatioRange(Lower(location), Lower(n))]
          IN { ws \in ScoreFunctions(S, range) :
                 \A n, m \in S : Lower(n) = Lower(m) => ws[n] = ws[m] }

\* process.extractOne(location, names): the first choice with the best score.
ExtractOne(names, ws) ==
  LET best == CHOOSE s \in { ws[names[i]] : i \in 1..Len(names) } :
                \A i \in 1..Len(names) : ws[names[i]] <= s
      first == CHOOSE i \in 1..Len(names) :
                 /\ ws[names[i]] = best
                 /\ \A j \in 1..(i - 1) : ws[names[j]] # best
  IN <<names[first], best>>

(* ------------------------------ the agent ------------------------------ *)

\* ent.label_ in ['LOC', 'GPE'].
IsPlace(ent) == ent.label_ \in {"LOC", "GPE"}

\* [ent.text for ent in doc.ents if ent.label_ in ['LOC', 'GPE']].
Locations(doc_ents) ==
  LET kept == SelectSeq(doc_ents, IsPlace)
  IN [i \in 1..Len(kept) |-> kept[i].text]

\* The loop with "score >= 70" for "score > 70".
RECURSIVE BestMatch_ge70(_, _, _, _)
BestMatch_ge70(pr, i, best_match, highest_score) ==
  IF i > Len(stop_names) THEN best_match
  ELSE LET stop_name == stop_names[i]
           score == pr[stop_name]
       IN IF score > highest_score /\ score >= 70
          THEN BestMatch_ge70(pr, i + 1, stop_name, score)
          ELSE BestMatch_ge70(pr, i + 1, best_match, highest_score)

\* The loop with "score >= highest_score" for "score > highest_score".
RECURSIVE BestMatch_last_max(_, _, _, _)
BestMatch_last_max(pr, i, best_match, highest_score) ==
  IF i > Len(stop_names) THEN best_match
  ELSE LET stop_name == stop_names[i]
           score == pr[stop_name]
       IN IF score >= highest_score /\ score > 70
          THEN BestMatch_last_max(pr, i + 1, stop_name, score)
          ELSE BestMatch_last_max(pr, i + 1, best_match, highest_score)

\* The loop of extract_location over self.stop_names, from index i on.
RECURSIVE BestMatch(_, _, _, _)
BestMatch(pr, i, best_match, highest_score) ==
  IF i > Len(stop_names) THEN best_match
  ELSE LET stop_name == stop_names[i]
           score == pr[stop_name]
       IN IF score > highest_score /\ score > 70
          THEN BestMatch(pr, i + 1, stop_name, score)
          ELSE BestMatch(pr, i + 1, best_match, highest_score)

\* extract_location returning locations[-1].
extract_location_last(doc_ents, pr) ==
  LET locations == Locations(doc_ents)
      best_match == BestMatch(pr, 1, None, 0)
      found == IF locations = <<>>
               THEN (IF best_match # None THEN <<best_match>> ELSE locations)
               ELSE locations
  IN IF found # <<>> THEN found[Len(found)] ELSE None

\* extract_location running the fuzzy match first and NER's entities only
\* when it finds nothing.
extract_location_fallback_first(doc_ents, pr) ==
  LET locations == Locations(doc_ents)
      best_match == BestMatch(pr, 1, None, 0)
      found == IF best_match # None THEN <<best_match>> ELSE locations
  IN IF found # <<>> THEN found[1] ELSE None

\* extract_location(query), with doc.ents and the partial_ratio scores the
\* libraries return for it.
extract_location(doc_ents, pr) ==
  LET locations == Locations(doc_ents)
      best_match == BestMatch(pr, 1, None, 0)
      found == IF locations = <<>>
               THEN (IF best_match # None THEN <<best_match>> ELSE locations)
               ELSE locations
  IN IF found # <<>> THEN found[1] ELSE None

\* Whether location is one of the stop names.
InStopNames(location) == \E i \in 1..Len(stop_names) : stop_names[i] = location

\* The row taken with iloc[-1].
FirstRow_last(location) ==
  df[CHOOSE i \in 1..Len(df) :
       /\ df[i].stop_name = location
       /\ \A j \in (i + 1)..Len(df) : df[j].stop_name # location]

\* self.df[self.df['stop_name'] == location].iloc[0].
FirstRow(location) ==
  df[CHOOSE i \in 1..Len(df) :
       /\ df[i].stop_name = location
       /\ \A j \in 1..(i - 1) : df[j].stop_name # location]

\* The dict find_nearest_toilet builds from a row.
ToiletInfo(stop_info) ==
  [stop_name |-> stop_info.stop_name,
   stop_lat |-> stop_info.stop_lat,
   stop_lon |-> stop_info.stop_lon,
   washroom_id |-> stop_info.nearest_washroom_id,
   washroom_lat |-> stop_info.washroom_latitude,
   washroom_lon |-> stop_info.washroom_longitude,
   washroom_address |-> stop_info.washroom_address,
   distance |-> stop_info.distance]

\* find_nearest_toilet with the threshold "score < 50".
find_nearest_toilet_lt50(location, ws) ==
  IF ~InStopNames(location)
  THEN IF stop_names = <<>> THEN [raised |-> ws.error]
       ELSE LET one == ExtractOne(stop_names, ws)
                closest_stop == one[1]
                score == one[2]
            IN IF score < 50 THEN NoInfo
               ELSE ToiletInfo(FirstRow(closest_stop))
  ELSE ToiletInfo(FirstRow(location))

\* find_nearest_toilet with the threshold "score <= 60".
find_nearest_toilet_le60(location, ws) ==
  IF ~InStopNames(location)
  THEN IF stop_names = <<>> THEN [raised |-> ws.error]
       ELSE LET one == ExtractOne(stop_names, ws)
                closest_stop == one[1]
                score == one[2]
            IN IF score <= 60 THEN NoInfo
               ELSE ToiletInfo(FirstRow(closest_stop))
  ELSE ToiletInfo(FirstRow(location))

\* find_nearest_toilet(location), with the answer ws of process.extractOne:
\* a dict, NoInfo, or the exception that leaves the method.
find_nearest_toilet(location, ws) ==
  IF ~InStopNames(location)
  THEN IF stop_names = <<>> THEN [raised |-> ws.error]
       ELSE LET one == ExtractOne(stop_names, ws)
                closest_stop == one[1]
                score == one[2]
            IN IF score < 60 THEN NoInfo
               ELSE ToiletInfo(FirstRow(closest_stop))
  ELSE ToiletInfo(FirstRow(location))

\* get_google_maps_link with the destination written as origin.
get_google_maps_link_swapped(from_lat, from_lon, to_lat, to_lon) ==
  <<"https://www.google.com/maps/dir/?api=1&origin=", to_lat, ",", to_lon,
    "&destination=", from_lat, ",", from_lon, "&travelmode=walking">>

\* get_google_maps_link: the parts of the f-string, in order.
get_google_maps_link(from_lat, from_lon, to_lat, to_lon) ==
  <<"https://www.google.com/maps/dir/?api=1&origin=", from_lat, ",", from_lon,
    "&destination=", to_lat, ",", to_lon, "&travelmode=walking">>

NoLocationMessage ==
  <<"I couldn't identify a location in your query. Please mention a specific bus stand or area.">>

NoStopMessage(location) ==
  <<"I couldn't find a bus stand matching '", location, "' in our database.">>

FoundMessage(toilet_info) ==
  <<"I found a public toilet near ", toilet_info.stop_name,
    " bus stand. It's located at ", toilet_info.washroom_address,
    ", approximately ", toilet_info.distance,
    " meters away. You can use the Google Maps link below for directions.">>

\* process_query(query): the dict returned, or [raised |-> exception].
process_query(doc_ents, pr, ws) ==
  LET location == extract_location(doc_ents, pr)
  IN IF location = None
     THEN [success |-> FALSE, message |-> NoLocationMessage]
     ELSE LET toilet_info == find_nearest_toilet(location, ws)
          IN IF "raised" \in DOMAIN toilet_info THEN toilet_info
             ELSE IF toilet_info = NoInfo
             THEN [success |-> FALSE, message |-> NoStopMessage(location)]
             ELSE [success |-> TRUE,
                   stop_name |-> toilet_info.stop_name,
                   stop_lat |-> toilet_info.stop_lat,
                   stop_lon |-> toilet_info.stop_lon,
                   washroom_id |-> toilet_info.washroom_id,
                   washroom_lat |-> toilet_info.washroom_lat,
                   washroom_lon |-> toilet_info.washroom_lon,
                   washroom_address |-> toilet_info.washroom_address,
                   distance |-> toilet_info.distance,
                   directions_link |-> get_google_maps_link(
                       toilet_info.stop_lat, toilet_info.stop_lon,
                       toilet_info.washroom_lat, toilet_info.washroom_lon),
                   message |-> FoundMessage(toilet_info)]

(* ---------------------------- the state machine ------------------------ *)

\* No call yet.
NoResult == [none |-> TRUE]

\* The partial_ratio answers for the query: every answer when extract_location
\* asks for them (NER found no place); when it does not, the answers it would
\* have got, one score for all the names the contract leaves open.
PAsked(q, doc_ents) ==
  LET f == FilterTokens(Lower(q))
      all == PartialRatioAnswers(f, stop_names)
      Open(n) == PartialRatioRange(f, Lower(n)) = PScores
  IN IF Locations(doc_ents) = <<>> THEN all
     ELSE { pr \in all :
              \A n, m \in DOMAIN pr : Open(n) /\ Open(m) => pr[n] = pr[m] }

\* The extractOne answers find_nearest_toilet asks for: none when there is no
\* location or it is a stop name.
WAsked(location) ==
  IF location # None /\ ~InStopNames(location)
  THEN ExtractOneAnswers(location, stop_names)
  ELSE {NotAsked}

\* __init__ (the table, and the list of its stop names), the query the agent
\* is asked, and what the libraries answer for that query.
Init ==
  /\ df \in Tables
  /\ stop_names = Column(df, "stop_name")
  /\ query \in Queries
  /\ ents \in NerAnswers(query)
  /\ pscore \in PAsked(query, ents)
  /\ wscore \in WAsked(extract_location(ents, pscore))
  /\ result = NoResult
  /\ trace = [location |-> None, consulted |-> FALSE, toilet_info |-> NoInfo]
  /\ prev = NoResult

\* process_query keeping the spelling it resolved among the stop names.
ProcessQuery_caching ==
  LET location == extract_location(ents, pscore)
  IN /\ result' = process_query(ents, pscore, wscore)
     /\ trace' = [location |-> location,
                   consulted |-> location # None,
                   toilet_info |-> IF location # None
                                   THEN find_nearest_toilet(location, wscore)
                                   ELSE NoInfo]
     /\ prev' = result
     /\ stop_names' = IF ("success" \in DOMAIN result' /\ result'.success) /\ ~InStopNames(location)
                      THEN Append(stop_names, location)
                      ELSE stop_names
     /\ UNCHANGED <<df, query, ents, pscore, wscore>>

\* One call of process_query(query), from the first statement to the return.
ProcessQuery ==
  LET location == extract_location(ents, pscore)
  IN /\ result' = process_query(ents, pscore, wscore)
     /\ trace' = [location |-> location,
                   consulted |-> location # None,
                   toilet_info |-> IF location # None
                                   THEN find_nearest_toilet(location, wscore)
                                   ELSE NoInfo]
     /\ prev' = result
     /\ UNCHANGED <<df, stop_names, query, ents, pscore, wscore>>

Next == ProcessQuery

Spec == Init /\ [][Next]_vars

(* ------------------------------ properties ----------------------------- *)

\* process_query has been called.
Called == result # NoResult

\* The call returned a dict.
Returned == Called /\ "success" \in DOMAIN result

\* The call returned success=True.
Success == Returned /\ result.success

\* The call raised.
Raised == Called /\ "raised" \in DOMAIN result

\* NER found a LOC/GPE entity.
HasPlace == \E k \in 1..Len(ents) : ents[k].label_ \in {"LOC", "GPE"}

\* The text of the first LOC/GPE entity in document order.
FirstPlace ==
  ents[CHOOSE k \in 1..Len(ents) :
         /\ ents[k].label_ \in {"LOC", "GPE"}
         /\ \A j \in 1..(k - 1) : ents[j].label_ \notin {"LOC", "GPE"}].text

NameSet == { stop_names[i] : i \in 1..Len(stop_names) }

\* The query is the stop name of some row.
QueryIsStopName == \E i \in 1..Len(df) : df[i].stop_name = query

\* The result carries the stop, facility id, coordinates, address and distance of row.
ReturnsRow(row) ==
  /\ Success
  /\ result.stop_name = row.stop_name
  /\ result.stop_lat = row.stop_lat
  /\ result.stop_lon = row.stop_lon
  /\ result.washroom_id = row.nearest_washroom_id
  /\ result.washroom_lat = row.washroom_latitude
  /\ result.washroom_lon = row.washroom_longitude
  /\ result.washroom_address = row.washroom_address
  /\ result.distance = row.distance

\* The first row of the table that carries name.
FirstRowNamed(name) ==
  df[CHOOSE i \in 1..Len(df) :
       df[i].stop_name = name /\ \A j \in 1..(i - 1) : df[j].stop_name # name]

\* C1 as stated: a query that is exactly a row's stop_name returns success with
\* exactly that row, for every row of every table and whatever NER extracts.
C1_ExactNameReturnsThatRow ==
  Called =>
    \A i \in 1..Len(df) : df[i].stop_name = query => ReturnsRow(df[i])

\* C1 amended: when the query is a row's stop_name and extract_location returns
\* that stop_name, process_query returns success with the fields of the first
\* table row that carries the name.
C1_ExactNameReturnsFirstRow ==
  (Called /\ QueryIsStopName /\ trace.location = query)
    => ReturnsRow(FirstRowNamed(query))

\* The query is the stop name shared by two rows, extract_location returned it,
\* and the call succeeded.
C1_Witness ==
  /\ Called
  /\ \E i, j \in 1..Len(df) : i < j /\ df[i].stop_name = query /\ df[j].stop_name = query
  /\ trace.location = query
  /\ Success

\* C2 as stated: process_query never raises; it returns a success, a 'no
\* location identified' failure or a 'no matching stop' failure, each with a message.
C2_NeverRaises ==
  Called =>
    /\ ~Raised
    /\ Returned
    /\ "message" \in DOMAIN result
    /\ \/ result.success
       \/ result.message =
            <<"I couldn't identify a location in your query. Please mention a specific bus stand or area.">>
       \/ result.message =
            <<"I couldn't find a bus stand matching '", trace.location, "' in our database.">>

\* C3: on success directions_link has the returned stop's coordinates as origin,
\* the returned facility's as destination, in that order, ends with
\* travelmode=walking, and the four coordinates are those of one row.
C3_LinkOriginThenDestination ==
  Success =>
    /\ result.directions_link[1] = "https://www.google.com/maps/dir/?api=1&origin="
    /\ result.directions_link[2] = result.stop_lat
    /\ result.directions_link[4] = result.stop_lon
    /\ result.directions_link[5] = "&destination="
    /\ result.directions_link[6] = result.washroom_lat
    /\ result.directions_link[8] = result.washroom_lon
    /\ result.directions_link[Len(result.directions_link)] = "&travelmode=walking"
    /\ \E i \in 1..Len(df) :
         /\ df[i].stop_name = result.stop_name
         /\ df[i].stop_lat = result.stop_lat
         /\ df[i].stop_lon = result.stop_lon
         /\ df[i].washroom_latitude = result.washroom_lat
         /\ df[i].washroom_longitude = result.washroom_lon

\* A successful call.
C3_Witness == Success /\ Len(df) > 1

\* The best score process.extractOne found over the stop names.
BestW == CHOOSE s \in { wscore[n] : n \in NameSet } : \A n \in NameSet : wscore[n] <= s

\* The name extract_location produced is no stop name and its best score is below 60.
NoCloseMatch ==
  /\ trace.location # None
  /\ trace.location \notin NameSet
  /\ NameSet # {}
  /\ BestW < 60

\* C4: a name from extract_location that is no stop name and whose best fuzzy
\* score is below 60 gives success=False with the 'no matching stop' message
\* naming it, and neither a record nor a link.
C4_BelowSixtyFails ==
  (Called /\ NoCloseMatch) =>
    /\ Returned
    /\ DOMAIN result = {"success", "message"}
    /\ result.success = FALSE
    /\ result.message =
         <<"I couldn't find a bus stand matching '", trace.location, "' in our database.">>

\* A call whose location scored 59 at best.
C4_Witness == Called /\ NoCloseMatch /\ BestW = 59

\* C5: when NER finds no LOC/GPE entity and no stop name scores above 70
\* against the filtered tokens, process_query returns success=False with the
\* 'no location identified' message and find_nearest_toilet is not called.
C5_NoLocationIdentified ==
  (Called /\ ~HasPlace /\ \A n \in NameSet : pscore[n] <= 70) =>
    /\ Returned
    /\ DOMAIN result = {"success", "message"}
    /\ result.success = FALSE
    /\ result.message =
         <<"I couldn't identify a location in your query. Please mention a specific bus stand or area.">>
    /\ ~trace.consulted

\* A call where NER found no place and a stop name scored exactly 70.
C5_Witness ==
  /\ Called
  /\ ~HasPlace
  /\ \A n \in NameSet : pscore[n] <= 70
  /\ \E n \in NameSet : pscore[n] = 70

\* C6 as stated: whenever NER recognises a place entity whose text is a stop
\* name, process_query returns success with that stop.
C6_AnyPlaceEntityWins ==
  Called =>
    \A k \in 1..Len(ents) :
      (ents[k].label_ \in {"LOC", "GPE"} /\ ents[k].text \in NameSet)
        => (Success /\ result.stop_name = ents[k].text)

\* C6 amended: when the first place entity NER recognises is a stop name,
\* process_query returns success with the first row of that stop; with the
\* default table and 'I need a washroom near Connaught Place' that is
\* address 'Connaught Place Block A' and distance 100.
C6_FirstPlaceEntityWins ==
  (Called /\ HasPlace /\ FirstPlace \in NameSet) =>
    /\ ReturnsRow(FirstRowNamed(FirstPlace))
    /\ (/\ df = DefaultRows
        /\ query = <<"I", "need", "a", "washroom", "near", "Connaught", "Place">>
        /\ FirstPlace = <<"Connaught", "Place">>)
         => (result.washroom_address = "Connaught Place Block A" /\ result.distance = 100)

\* The default table, the query of the example, and NER recognising Connaught Place.
C6_Witness ==
  /\ Success
  /\ df = DefaultRows
  /\ query = <<"I", "need", "a", "washroom", "near", "Connaught", "Place">>
  /\ HasPlace
  /\ FirstPlace = <<"Connaught", "Place">>

BestP == CHOOSE s \in { pscore[n] : n \in NameSet } \cup {0} :
           \A n \in NameSet : pscore[n] <= s

\* The earliest stop name in table order that has the best partial_ratio score.
FirstBestP ==
  stop_names[CHOOSE i \in 1..Len(stop_names) :
               /\ pscore[stop_names[i]] = BestP
               /\ \A j \in 1..(i - 1) : pscore[stop_names[j]] # BestP]

\* C8: when NER finds no entity, extract_location returns the stop name with
\* the best partial_ratio score exactly when that score exceeds 70, the
\* earliest in table order among equals, and none otherwise.
C8_FallbackThreshold ==
  (Called /\ ~HasPlace) =>
    /\ BestP > 70 => trace.location = FirstBestP
    /\ BestP <= 70 => trace.location = None

\* NER found nothing and two different stop names share the best score, above 70.
C8_Witness ==
  /\ Called
  /\ ~HasPlace
  /\ BestP > 70
  /\ \E i, j \in 1..Len(stop_names) :
       /\ i < j
       /\ stop_names[i] # stop_names[j]
       /\ pscore[stop_names[i]] = BestP
       /\ pscore[stop_names[j]] = BestP

\* C9: when NER finds a LOC/GPE entity, extract_location returns the first one
\* in document order, whatever the stop names would have scored in the fallback.
C9_FirstEntityNoFallback ==
  (Called /\ HasPlace) => trace.location = FirstPlace

\* NER found two places, the first is no stop name, and a stop name would have
\* scored above 70 in the fallback.
C9_Witness ==
  /\ Called
  /\ Len(SelectSeq(ents, IsPlace)) >= 2
  /\ FirstPlace \notin NameSet
  /\ \E n \in NameSet : pscore[n] > 70

\* find_nearest_toilet returned a record.
GotRecord == Called /\ trace.consulted /\ "stop_name" \in DOMAIN trace.toilet_info

\* C10: the record of find_nearest_toilet(name) has a stop name of the table:
\* name itself when it is a stop name, otherwise a best-scoring stop name, whose
\* score is at least 60; a best score of 60 or more always gives a record; and
\* every field is that of the first row carrying the stop name.
C10_RecordOfKnownStop ==
  /\ GotRecord =>
       LET info == trace.toilet_info
           row == FirstRowNamed(info.stop_name)
       IN /\ info.stop_name \in NameSet
          /\ trace.location \in NameSet => info.stop_name = trace.location
          /\ trace.location \notin NameSet =>
               (wscore[info.stop_name] = BestW /\ BestW >= 60)
          /\ info.stop_lat = row.stop_lat
          /\ info.stop_lon = row.stop_lon
          /\ info.washroom_id = row.nearest_washroom_id
          /\ info.washroom_lat = row.washroom_latitude
          /\ info.washroom_lon = row.washroom_longitude
          /\ info.washroom_address = row.washroom_address
          /\ info.distance = row.distance
  /\ (Called /\ trace.consulted /\ trace.location \in NameSet) => GotRecord
  /\ (Called /\ trace.consulted /\ trace.location \notin NameSet
        /\ NameSet # {} /\ BestW >= 60) => GotRecord

\* A name that is no stop name, matched with a best score of exactly 60.
C10_Witness ==
  /\ GotRecord
  /\ trace.location \notin NameSet
  /\ BestW = 60

====
